---- MODULE Spec2Model ----
(***************************************************************************)
(* Benchmark-and-verify cells of the workshop notebooks.                   *)
(*                                                                         *)
(* Every comparison exercise of the notebooks is one code cell: it builds  *)
(* an input, invokes two or more candidate computations, times them with   *)
(* %timeit / timeit.repeat / time.time() and, in some cells, compares the  *)
(* candidates' outputs.  A cell is modelled as the list of its statements  *)
(* (Program) executed in order by a program counter; a timeit measurement  *)
(* is executed run by run and loop by loop.                                *)
(*                                                                         *)
(* Numbers are exact rationals <<num, den>> (den > 0); NaN is <<0, 0>>.    *)
(* The clock counts ticks of its resolution.  A program sees the clock     *)
(* only when it reads it, so the time that passes while candidates execute *)
(* is added when the clock is read at the end of a run.                    *)
(*                                                                         *)
(* Three specifications share the variables:                               *)
(*   Spec     the timing cells of the pandas, NumPy and profiling          *)
(*            notebooks, one cell at a time;                               *)
(*   Calls    the comparisons and computations whose result the cells      *)
(*            print, applied to operands of any content;                   *)
(*   Module7  the Dask and Parquet notebook, run from top to bottom.       *)
(***************************************************************************)
EXTENDS Integers, Sequences, FiniteSets

VARIABLES
    cell,       \* the notebook cell being executed, "idle" between cells
    pc,         \* index of the next statement of the cell
    mem,        \* the Python variables the cells read and write
    clock,      \* the performance counter / time.time()
    tpc,        \* position inside a timeit measurement
    t0,         \* start time of the current run
    run,        \* runs completed in the current measurement
    loop,       \* loops completed in the current run
    times,      \* the list timeit.repeat builds (one total per run)
    measured,   \* completed timeit measurements, in order
    results,    \* values computed by best = min(times) / runs * scale
    wall,       \* elapsed times computed as end - start around one call
    log,        \* history of the statements and invocations executed
    prev,       \* what the previous execution of the cell printed as verdict
    operands,   \* the operands of the library call under study
    returned,   \* what the call returned, <<>> before it has returned
    graph,      \* the Dask task graph: the tasks defined so far
    executed,   \* the tasks of the graph the scheduler has executed
    files       \* the files in the working directory

\* the state the timing cells do not touch
pure == <<operands, returned>>
dask == <<graph, executed, files>>

kernel == <<cell, pc, mem, clock, tpc, t0, run, loop, times, measured,
            results, wall, log>>

vars == <<kernel, prev, pure, dask>>

-----------------------------------------------------------------------------
(* Bounds.  The notebooks use 20..1000 runs and loops and arrays of 20 to   *)
(* 1000000 elements; the model keeps the structure and scales the sizes.    *)

runs == 3          \* runs = 40 (runs = 20 in the scaling cell): timeit's number
repeats == 2       \* repeats = 1000: timeit's repeat
TimeitR == 2       \* %timeit -r 20 (7 by default)
TimeitN == 2       \* %timeit -n 100
ArrLen == 2        \* N, the length of the generated arrays
MaxTick == 1       \* largest advance of the clock between two readings
NValues == 2       \* how many entries of n_values the scaling loop visits
FloatMax == 4      \* largest finite value of an array element (1.8e308 for
                   \* float64), scaled like the number of invocations

-----------------------------------------------------------------------------
(* Exact rational arithmetic standing for Python / NumPy floats.            *)

RECURSIVE GCD(_, _)
GCD(a, b) == IF b = 0 THEN a ELSE GCD(b, a % b)

Abs(n) == IF n < 0 THEN -n ELSE n

NaN == <<0, 0>>
IsNaN(q) == q = NaN

\* inf and -inf, what a float operation gives when its result is too large
Inf == <<1, 0>>
IsInf(q) == q[2] = 0 /\ q[1] # 0

Norm(n, d) ==
    LET g == GCD(Abs(n), Abs(d))
        s == IF d < 0 THEN -1 ELSE 1
    IN  IF d = 0 THEN NaN ELSE <<s * (n \div g), s * (d \div g)>>

Whole(n) == <<n, 1>>
Zero == Whole(0)
One == Whole(1)
Half == <<1, 2>>

\* q / r and q * r of Python floats (no rounding at the magnitudes used)
FracDiv(q, r) == IF IsNaN(q) \/ IsNaN(r) \/ r[1] = 0 THEN NaN
                 ELSE Norm(q[1] * r[2], q[2] * r[1])
FracMul(q, r) == IF IsNaN(q) \/ IsNaN(r) THEN NaN
                 ELSE Norm(q[1] * r[1], q[2] * r[2])

\* q / r of two elements of float64 arrays, r not zero: the quotient, or
\* inf where it is beyond the largest finite value ("RuntimeWarning:
\* overflow encountered in divide"); inf divided by a finite value is inf
FloatDiv(q, r) ==
    IF IsNaN(q) \/ IsNaN(r) \/ (IsInf(q) /\ IsInf(r)) THEN NaN
    ELSE IF IsInf(r) THEN Zero
    ELSE IF IsInf(q) THEN <<(IF r[1] < 0 THEN -1 ELSE 1) * q[1], 0>>
    ELSE LET v == FracDiv(q, r)
         IN  IF Abs(v[1]) > FloatMax * v[2]
             THEN <<(IF v[1] < 0 THEN -1 ELSE 1), 0>>
             ELSE v

\* min(times) of a non-empty list of integers
RECURSIVE MinOf(_)
MinOf(s) == IF Len(s) = 1 THEN s[1]
            ELSE LET m == MinOf(Tail(s)) IN IF s[1] <= m THEN s[1] ELSE m

\* a float summation is off from the exact sum by at most one unit in the
\* last place, in either direction, depending on the order of the additions
Rounding == {-1, 0, 1}

RECURSIVE SumOf(_)
SumOf(s) == IF s = <<>> THEN 0 ELSE s[1] + SumOf(Tail(s))

-----------------------------------------------------------------------------
(* The candidates.                                                          *)

\* np.divide(A, B, out=V, where=(B != 0)): V[i] = A[i] / B[i] where the
\* condition holds, V[i] left as it was elsewhere; returns V.
np_divide(A, B, V) ==
    [i \in 1..Len(A) |-> IF B[i] # Zero THEN FloatDiv(A[i], B[i]) ELSE V[i]]

\* masked_divide as its comment describes it, working on a copy: the array A
\* after the call is the array A before it
masked_divide_on_copy(A, B) == A

\* masked_divide(A, B): V_mask = A binds a second name to the same array,
\* so V_mask[mask] = A[mask] / B[mask] writes into A.  The value is the
\* content of that one array after the call (and the array returned).
masked_divide(A, B) ==
    [i \in 1..Len(A) |-> IF B[i] # Zero THEN FloatDiv(A[i], B[i]) ELSE A[i]]

\* df_perf.apply(lambda row: row['x'] + row['y'], axis=1)
RECURSIVE sum_apply(_, _)
sum_apply(x, y) ==
    IF x = <<>> THEN <<>>
    ELSE <<Head(x) + Head(y)>> \o sum_apply(Tail(x), Tail(y))

\* for idx, row in df_perf.iterrows(): sums.append(row['x'] + row['y'])
RECURSIVE iterrows(_, _, _)
iterrows(x, y, sums) ==
    IF x = <<>> THEN sums
    ELSE iterrows(Tail(x), Tail(y), Append(sums, Head(x) + Head(y)))

\* each sum put in front of the list instead of appended
RECURSIVE sum_loop_prepend(_, _)
sum_loop_prepend(x, y) ==
    IF x = <<>> THEN <<>>
    ELSE sum_loop_prepend(Tail(x), Tail(y)) \o <<Head(x) + Head(y)>>

\* sums = []; the loop; df_perf['sum_loop'] = sums
sum_loop(x, y) == iterrows(x, y, <<>>)

\* df_perf['x'] + df_perf['y']
sum_vectorized(x, y) == [i \in 1..Len(x) |-> x[i] + y[i]]

-----------------------------------------------------------------------------
(* The comparisons.                                                         *)

\* the columns of the model hold whole numbers: the same values as floats
AsFloats(col) == [i \in 1..Len(col) |-> Whole(col[i])]

\* a == b on floats: false whenever either side is NaN
FloatEq(a, b) == ~IsNaN(a) /\ ~IsNaN(b) /\ a = b

\* the comparison with a tolerance (numpy.allclose style) in place of ==
equals_close(left, right) ==
    /\ Len(left) = Len(right)
    /\ \A i \in 1..Len(left) :
          \/ IsNaN(left[i]) /\ IsNaN(right[i])
          \/ /\ ~IsNaN(left[i]) /\ ~IsNaN(right[i])
             /\ 1000 * Abs(left[i][1] * right[i][2] - right[i][1] * left[i][2])
                  < left[i][2] * right[i][2]

\* the comparison as (left == right).all(), NaN never equal to NaN
equals_elementwise(left, right) ==
    /\ Len(left) = Len(right)
    /\ \A i \in 1..Len(left) : FloatEq(left[i], right[i])

\* a verdict that also looks at the two elapsed times of the cell
equals_if_slower(left, right) ==
    /\ Len(left) = Len(right)
    /\ \A i \in 1..Len(left) :
          FloatEq(left[i], right[i]) \/ (IsNaN(left[i]) /\ IsNaN(right[i]))
    /\ wall[1].elapsed >= wall[2].elapsed

\* left.equals(right) of two columns of one DataFrame: same length and, at
\* every position, equal values or NaN on both sides
equals(left, right) ==
    /\ Len(left) = Len(right)
    /\ \A i \in 1..Len(left) :
          FloatEq(left[i], right[i]) \/ (IsNaN(left[i]) /\ IsNaN(right[i]))

\* ddf["id"].count().compute(): the number of non-null values of a column
RECURSIVE count(_)
count(col) ==
    IF col = <<>> THEN 0
    ELSE (IF IsNaN(Head(col)) THEN 0 ELSE 1) + count(Tail(col))

\* the row verdict taken from the lengths of the tables
verify_by_length(t1, t2) ==
    [rows |-> Len(t1["id"]) = Len(t2["id"]), cols |-> DOMAIN t1 = DOMAIN t2]

\* rows_csv == rows_parquet and cols_csv == cols_parquet, where rows_* is
\* the count of the id column and cols_* is set(ddf.columns)
verify(t1, t2) ==
    [rows |-> count(t1["id"]) = count(t2["id"]), cols |-> DOMAIN t1 = DOMAIN t2]

-----------------------------------------------------------------------------
(* The cells, statement by statement.                                       *)

Stmt(op, cand, arg, number, repeat, scale) ==
    [op |-> op, cand |-> cand, arg |-> arg, number |-> number,
     repeat |-> repeat, scale |-> scale]

n_values == <<100, 200, 400, 800, 1600, 3200>>

\* for n in n_values: t = timeit.repeat(...); t = min(t)/runs*1e3; print
RECURSIVE ScalingLoop(_)
ScalingLoop(k) ==
    IF k = 0 THEN <<>>
    ELSE ScalingLoop(k - 1) \o
         << Stmt("repeat", "sum_primes_naive", n_values[k], runs, repeats, 0),
            Stmt("best", "sum_primes_naive", n_values[k], runs, 0, 1000),
            Stmt("print", "sum_primes_naive", n_values[k], 0, 0, 0) >>

Cells == {"store", "scaling", "loopsum", "apply", "divide", "divide_solved"}

\* %timeit -r 40 -n 1000 sum_squares_loop(5000)
\* runs=40; repeats=1000
\* times = timeit.repeat(stmt='sum_squares_comp(5000)', number=runs, repeat=repeats)
\* best = min(times) / runs*1e6; print
store_cell ==
    << Stmt("timeit", "sum_squares_loop", 5000, repeats, runs, 0),
       Stmt("repeat", "sum_squares_comp", 5000, runs, repeats, 0),
       Stmt("best", "sum_squares_comp", 5000, runs, 0, 1000000),
       Stmt("print", "sum_squares_comp", 5000, 0, 0, 0) >>

scaling_cell == ScalingLoop(NValues)

\* data = np.random.rand(N); total_loop = ...; total_numpy = ...;
\* print("Difference:", ...); %timeit python_loop_sum(data);
\* %timeit numpy_vectorized_sum(data)
\* A plain %timeit ("autotimeit") is given neither -r nor -n: the recorded
\* output shows 7 runs of a loop count that %timeit picked itself.
loopsum_cell ==
    << Stmt("gen", "data", 0, 0, 0, 0),
       Stmt("call", "python_loop_sum", 0, 0, 0, 0),
       Stmt("call", "numpy_vectorized_sum", 0, 0, 0, 0),
       Stmt("check", "Difference", 0, 0, 0, 0),
       Stmt("autotimeit", "python_loop_sum", 0, TimeitN, TimeitR, 0),
       Stmt("autotimeit", "numpy_vectorized_sum", 0, TimeitN, TimeitR, 0) >>

\* the outputs compared before either candidate has produced one
apply_cell_check_first ==
    << Stmt("gen", "df_perf", 0, 0, 0, 0),
       Stmt("check", "equals", 0, 0, 0, 0),
       Stmt("wall", "sum_apply", 0, 0, 0, 0),
       Stmt("wall", "sum_vectorized", 0, 0, 0, 0),
       Stmt("print", "apply_time", 0, 0, 0, 0) >>

\* df_perf = ...; time apply; time vectorized; print the two times;
\* print("Results equal?", ... .equals(...))
apply_cell ==
    << Stmt("gen", "df_perf", 0, 0, 0, 0),
       Stmt("wall", "sum_apply", 0, 0, 0, 0),
       Stmt("wall", "sum_vectorized", 0, 0, 0, 0),
       Stmt("print", "apply_time", 0, 0, 0, 0),
       Stmt("check", "equals", 0, 0, 0, 0) >>

\* A, B = ...; %timeit -r 20 -n 100 np.divide(A, B, out=V_npdivide, where=(B != 0))
\* %timeit -r 20 -n 100 masked_divide(A, B)
divide_cell ==
    << Stmt("gen", "A, B", 0, 0, 0, 0),
       Stmt("timeit", "np.divide", 0, TimeitN, TimeitR, 0),
       Stmt("timeit", "masked_divide", 0, TimeitN, TimeitR, 0) >>

\* the same cell in the solved notebook, with
\* V_mask,A=masked_divide(A, B); print(A) before the second %timeit
divide_solved_cell ==
    << Stmt("gen", "A, B", 0, 0, 0, 0),
       Stmt("timeit", "np.divide", 0, TimeitN, TimeitR, 0),
       Stmt("call", "masked_divide", 0, 0, 0, 0),
       Stmt("print", "A", 0, 0, 0, 0),
       Stmt("timeit", "masked_divide", 0, TimeitN, TimeitR, 0) >>

Program(c) ==
    CASE c = "store" -> store_cell
      [] c = "scaling" -> scaling_cell
      [] c = "loopsum" -> loopsum_cell
      [] c = "apply" -> apply_cell
      [] c = "divide" -> divide_cell
      [] c = "divide_solved" -> divide_solved_cell

HasStmt == cell \in Cells /\ pc <= Len(Program(cell))
Cur == Program(cell)[pc]

-----------------------------------------------------------------------------
(* State.                                                                   *)

EmptyMem ==
    [A |-> <<>>, B |-> <<>>, V_npdivide |-> <<>>,
     data |-> <<>>, total_loop |-> 0, total_numpy |-> 0,
     x |-> <<>>, y |-> <<>>, sum_apply |-> <<>>, sum_vectorized |-> <<>>,
     equal |-> <<>>, difference |-> <<>>]

\* a fresh kernel: no cell is running and no variable is bound
KernelIdle ==
    /\ cell = "idle"
    /\ pc = 1
    /\ mem = EmptyMem
    /\ clock = 0
    /\ tpc = "idle"
    /\ t0 = 0
    /\ run = 0
    /\ loop = 0
    /\ times = <<>>
    /\ measured = <<>>
    /\ results = <<>>
    /\ wall = <<>>
    /\ log = <<>>

Init ==
    /\ KernelIdle
    /\ prev = <<>>
    /\ operands = <<>>
    /\ returned = <<>>
    /\ graph = {}
    /\ executed = {}
    /\ files = <<>>

\* the input arrays of the cells, as an invocation finds them
Input(mm) == <<mm.A, mm.B, mm.data, mm.x, mm.y>>

\* history entry: statement kind, candidate, statement index, run number
\* and the input found
Event(ev, cand, m, r, in) ==
    [ev |-> ev, cand |-> cand, m |-> m, run |-> r, seen |-> in]

\* effect of one invocation of a candidate whose result is discarded
Effect(cand) ==
    CASE cand = "np.divide" ->
           [mem EXCEPT !.V_npdivide = np_divide(mem.A, mem.B, mem.V_npdivide)]
      [] cand = "masked_divide" ->
           [mem EXCEPT !.A = masked_divide(mem.A, mem.B)]
      [] OTHER -> mem

\* the two readings subtracted the wrong way round
Elapsed_swapped(start, end) == start - end

\* elapsed time between two readings of the clock
Elapsed(start, end) == end - start

-----------------------------------------------------------------------------
(* Actions.                                                                 *)

\* a cell is run; the verdict it printed last time stays on the screen only
\* while the same cell is run again
RunCell(c) ==
    /\ cell = "idle"
    /\ cell' = c
    /\ pc' = 1
    /\ prev' = IF prev # <<>> /\ prev[1].cell = c THEN prev ELSE <<>>
    /\ UNCHANGED <<pure, dask>>
    /\ UNCHANGED <<mem, clock, tpc, t0, run, loop, times, measured,
                   results, wall, log>>

\* the statements that build the input of the cell
Gen ==
    /\ HasStmt /\ tpc = "idle" /\ Cur.op = "gen"
    /\ \/ /\ cell \in {"divide", "divide_solved"}
          /\ \E a \in [1..ArrLen -> {Half, One}],
                b \in [1..ArrLen -> {Half, One}] :
                mem' = [mem EXCEPT
                          !.A = a,
                          \* B[::10] = 0 zeroes the first element
                          !.B = [b EXCEPT ![1] = Zero],
                          !.V_npdivide = [i \in 1..ArrLen |-> NaN]]
       \/ /\ cell = "loopsum"
          /\ \E d \in [1..ArrLen -> 0..1] : mem' = [mem EXCEPT !.data = d]
       \/ /\ cell = "apply"
          /\ \E a \in [1..ArrLen -> 0..1], b \in [1..ArrLen -> 0..1] :
                mem' = [mem EXCEPT !.x = a, !.y = b]
    /\ log' = Append(log, Event("gen", Cur.cand, pc, 0, Input(mem')))
    /\ pc' = pc + 1
    /\ UNCHANGED <<prev, pure, dask>>
    /\ UNCHANGED <<cell, clock, tpc, t0, run, loop, times, measured,
                   results, wall>>

\* %timeit -r R -n N stmt   and   timeit.repeat(stmt, number=N, repeat=R)
BeginMeasure ==
    /\ HasStmt /\ tpc = "idle" /\ Cur.op \in {"timeit", "autotimeit", "repeat"}
    /\ tpc' = "run"
    /\ run' = 0
    /\ times' = <<>>
    /\ UNCHANGED <<prev, pure, dask>>
    /\ UNCHANGED <<cell, pc, mem, clock, t0, loop, measured, results,
                   wall, log>>

StartRun ==
    /\ tpc = "run" /\ run < Cur.repeat
    /\ t0' = clock
    /\ loop' = 0
    /\ tpc' = "loop"
    /\ UNCHANGED <<prev, pure, dask>>
    /\ UNCHANGED <<cell, pc, mem, clock, run, times, measured, results,
                   wall, log>>

Invoke ==
    /\ tpc = "loop" /\ loop < Cur.number
    /\ mem' = Effect(Cur.cand)
    /\ log' = Append(log, Event(Cur.op, Cur.cand, pc, run + 1, Input(mem)))
    /\ loop' = loop + 1
    /\ UNCHANGED <<prev, pure, dask>>
    /\ UNCHANGED <<cell, pc, clock, tpc, t0, run, times, measured, results,
                   wall>>

\* a run that stops one loop short
EndRun_short ==
    /\ tpc = "loop" /\ loop >= Cur.number - 1
    /\ \E d \in 0..MaxTick :
          /\ clock' = clock + d
          /\ times' = Append(times, Elapsed(t0, clock + d))
    /\ run' = run + 1
    /\ tpc' = "run"
    /\ UNCHANGED <<prev, pure, dask>>
    /\ UNCHANGED <<cell, pc, mem, t0, loop, measured, results, wall, log>>

EndRun ==
    /\ tpc = "loop" /\ loop = Cur.number
    /\ \E d \in 0..MaxTick :
          /\ clock' = clock + d
          /\ times' = Append(times, Elapsed(t0, clock + d))
    /\ run' = run + 1
    /\ tpc' = "run"
    /\ UNCHANGED <<prev, pure, dask>>
    /\ UNCHANGED <<cell, pc, mem, t0, loop, measured, results, wall, log>>

\* a measurement that ends one run short
EndMeasure_early ==
    /\ tpc = "run" /\ run >= Cur.repeat - 1
    /\ measured' = Append(measured,
                      [m |-> pc, cand |-> Cur.cand, op |-> Cur.op,
                       number |-> Cur.number, repeat |-> Cur.repeat,
                       times |-> times])
    /\ tpc' = "idle"
    /\ pc' = pc + 1
    /\ UNCHANGED <<prev, pure, dask>>
    /\ UNCHANGED <<cell, mem, clock, t0, run, loop, times, results,
                   wall, log>>

EndMeasure ==
    /\ tpc = "run" /\ run = Cur.repeat
    /\ measured' = Append(measured,
                      [m |-> pc, cand |-> Cur.cand, op |-> Cur.op,
                       number |-> Cur.number, repeat |-> Cur.repeat,
                       times |-> times])
    /\ tpc' = "idle"
    /\ pc' = pc + 1
    /\ UNCHANGED <<prev, pure, dask>>
    /\ UNCHANGED <<cell, mem, clock, t0, run, loop, times, results,
                   wall, log>>

\* the mean of the run totals per loop instead of the minimum
BestOf_mean(ts, n, scale) ==
    FracMul(FracDiv(Whole(SumOf(ts)), Whole(n * Len(ts))), Whole(scale))

\* best = min(times) / runs * 1e6      t = min(t) / runs * 1e3
BestOf(ts, n, scale) == FracMul(FracDiv(Whole(MinOf(ts)), Whole(n)), Whole(scale))

Best ==
    /\ HasStmt /\ tpc = "idle" /\ Cur.op = "best"
    /\ results' = Append(results,
                     [m |-> pc - 1, cand |-> Cur.cand, arg |-> Cur.arg,
                      times |-> times, scale |-> Cur.scale,
                      best |-> BestOf(times, Cur.number, Cur.scale)])
    /\ log' = Append(log, Event("best", Cur.cand, pc, 0, Input(mem)))
    /\ pc' = pc + 1
    /\ UNCHANGED <<prev, pure, dask>>
    /\ UNCHANGED <<cell, mem, clock, tpc, t0, run, loop, times, measured,
                   wall>>

\* one untimed call whose result is kept:
\*   total_loop = python_loop_sum(data); total_numpy = numpy_vectorized_sum(data)
\*   V_mask, A = masked_divide(A, B)
Call ==
    /\ HasStmt /\ tpc = "idle" /\ Cur.op = "call"
    /\ \/ /\ Cur.cand = "python_loop_sum"
          /\ \E e \in Rounding :
                mem' = [mem EXCEPT !.total_loop = SumOf(mem.data) + e]
       \/ /\ Cur.cand = "numpy_vectorized_sum"
          /\ \E e \in Rounding :
                mem' = [mem EXCEPT !.total_numpy = SumOf(mem.data) + e]
       \/ /\ Cur.cand = "masked_divide"
          /\ mem' = Effect("masked_divide")
    /\ log' = Append(log, Event("call", Cur.cand, pc, 0, Input(mem)))
    /\ pc' = pc + 1
    /\ UNCHANGED <<prev, pure, dask>>
    /\ UNCHANGED <<cell, clock, tpc, t0, run, loop, times, measured,
                   results, wall>>

\* start = time.time(); df_perf[c] = ...; end = time.time(); t = end - start
Wall ==
    /\ HasStmt /\ tpc = "idle" /\ Cur.op = "wall"
    /\ \E d \in 0..MaxTick :
          /\ clock' = clock + d
          /\ wall' = Append(wall, [cand |-> Cur.cand,
                                   elapsed |-> Elapsed(clock, clock + d)])
    /\ log' = Append(log, Event("wall", Cur.cand, pc, 1, Input(mem)))
    /\ mem' = IF Cur.cand = "sum_apply"
              THEN [mem EXCEPT !.sum_apply = sum_apply(mem.x, mem.y)]
              ELSE [mem EXCEPT !.sum_vectorized = sum_vectorized(mem.x, mem.y)]
    /\ pc' = pc + 1
    /\ UNCHANGED <<prev, pure, dask>>
    /\ UNCHANGED <<cell, tpc, t0, run, loop, times, measured, results>>

\* print("Difference:", abs(total_loop - total_numpy))
\* print("Results equal?", df_perf['sum_apply'].equals(df_perf['sum_vectorized']))
Check ==
    /\ HasStmt /\ tpc = "idle" /\ Cur.op = "check"
    /\ mem' = IF Cur.cand = "equals"
              THEN [mem EXCEPT !.equal =
                       <<equals(AsFloats(mem.sum_apply),
                                AsFloats(mem.sum_vectorized))>>]
              ELSE [mem EXCEPT !.difference =
                       <<Abs(mem.total_loop - mem.total_numpy)>>]
    /\ log' = Append(log, Event("check", Cur.cand, pc, 0, Input(mem)))
    /\ pc' = pc + 1
    /\ UNCHANGED <<prev, pure, dask>>
    /\ UNCHANGED <<cell, clock, tpc, t0, run, loop, times, measured,
                   results, wall>>

\* print(...)
PrintStmt ==
    /\ HasStmt /\ tpc = "idle" /\ Cur.op = "print"
    /\ log' = Append(log, Event("print", Cur.cand, pc, 0, Input(mem)))
    /\ pc' = pc + 1
    /\ UNCHANGED <<prev, pure, dask>>
    /\ UNCHANGED <<cell, mem, clock, tpc, t0, run, loop, times, measured,
                   results, wall>>

\* the verdict of a finished cell, with the input it was reached on and
\* whether the first timed candidate took measurable time
Outcome ==
    [cell |-> cell, input |-> log[1].seen, equal |-> mem.equal[1],
     slow |-> wall[1].elapsed > 0]

\* the cell has run to its end; the next cell is analysed from a fresh kernel
Return ==
    /\ cell \in Cells /\ pc = Len(Program(cell)) + 1
    /\ prev' = IF mem.equal # <<>> THEN <<Outcome>> ELSE <<>>
    /\ cell' = "idle"
    /\ pc' = 1
    /\ mem' = EmptyMem
    /\ clock' = 0
    /\ tpc' = "idle"
    /\ t0' = 0
    /\ run' = 0
    /\ loop' = 0
    /\ times' = <<>>
    /\ measured' = <<>>
    /\ results' = <<>>
    /\ wall' = <<>>
    /\ log' = <<>>
    /\ UNCHANGED <<pure, dask>>

Next ==
    \/ \E c \in Cells : RunCell(c)
    \/ Gen
    \/ BeginMeasure
    \/ StartRun
    \/ Invoke
    \/ EndRun
    \/ EndMeasure
    \/ Best
    \/ Call
    \/ Wall
    \/ Check
    \/ PrintStmt
    \/ Return

Spec == Init /\ [][Next]_vars

-----------------------------------------------------------------------------
(* The comparisons the cells print, as calls on operands of any content.    *)
(* In the cells the two columns compared are always the outputs of two      *)
(* candidates on one input; here the library call is applied to every pair  *)
(* of columns up to a length.                                               *)

ColLen == 2        \* longest column compared

\* a float next to 1.0: the two sums of the loop-vs-NumPy cell differ by
\* 5.8e-10 in the recorded run
Near == <<2001, 2000>>

Floats == {Zero, One, Near, NaN}

Columns == UNION {[1..n -> Floats] : n \in 1..ColLen}

TabRows == 2       \* most rows of a table

\* a table: its columns by name, all of one length; an id may be null
TablesOf(names, n) ==
    {t \in [names -> [1..n -> {Zero, One, NaN}]] :
        /\ \A i \in 1..n : t["id"][i] # Zero
        /\ \A c \in names \ {"id"} : \A i \in 1..n : ~IsNaN(t[c][i])}

Tables ==
    UNION {TablesOf(names, n) :
              names \in {{"id"}, {"id", "value1"}, {"id", "group"}},
              n \in 0..TabRows}

VerifyOperands ==
    {[fn |-> "verify", left |-> t1, right |-> t2] : t1 \in Tables, t2 \in Tables}

SumLen == 2        \* most rows of df_perf
DivLen == 2        \* longest divisor array besides [2, 0, 5, 0, 10]

\* what a position of a fresh, never written array may hold: anything; NaN
\* and the two values the recorded run shows there, 1.41421356 and 2.
Garbage == {NaN, <<35355339, 25000000>>, Whole(2)}

\* A = np.array([2, 0, 5, 0, 10]), and shorter arrays of small integers
DivideOperands ==
    {[fn |-> "divide", A |-> a] :
        a \in {<<2, 0, 5, 0, 10>>} \cup UNION {[1..n -> 0..2] : n \in 1..DivLen}}

\* the columns x and y of df_perf: of one length, and the pair
\* [1, 2, 3, 4], [10, 20, 30, 40]
SumsOperands ==
    {[fn |-> "sums", x |-> a, y |-> b] :
        a \in {<<1, 2, 3, 4>>}, b \in {<<10, 20, 30, 40>>}}
    \cup UNION {{[fn |-> "sums", x |-> a, y |-> b] :
                   a \in [1..n -> 0..1], b \in [1..n -> 0..1]} : n \in 0..SumLen}

EqualsOperands ==
    {[fn |-> "equals", left |-> l, right |-> r] : l \in Columns, r \in Columns}

ViewLen == 3       \* len(arr): arr = np.array([10, 11, 12, 13, 14, 15])

\* NumPy arrays in memory.  An array object is a window on a buffer: the
\* buffer it reads and writes, and the half-open range of positions it
\* covers.  Several array objects may share one buffer.
np_array(vals) ==
    [heap |-> <<vals>>, obj |-> [base |-> 1, start |-> 0, stop |-> Len(vals)]]

\* the values an array object shows
values(heap, obj) ==
    [i \in 1..(obj.stop - obj.start) |-> heap[obj.base][obj.start + i]]

\* obj[a:b] for a, b >= 0: a view, i.e. a new window on the same buffer;
\* both ends are clipped to the length
getslice(obj, a, b) ==
    LET n == obj.stop - obj.start
        lo == IF a < n THEN a ELSE n
        hi == IF b < n THEN b ELSE n
    IN  [base |-> obj.base, start |-> obj.start + lo,
         stop |-> obj.start + (IF hi < lo THEN lo ELSE hi)]

\* a second name for the same array, where a copy was meant
copy_alias(heap, obj) == [heap |-> heap, obj |-> obj]

\* obj.copy(): a new buffer holding the values obj shows
copy(heap, obj) ==
    [heap |-> Append(heap, values(heap, obj)),
     obj |-> [base |-> Len(heap) + 1, start |-> 0,
              stop |-> obj.stop - obj.start]]

\* obj[:] = v writes v to every position of the buffer that obj covers
setall(heap, obj, v) ==
    [heap EXCEPT ![obj.base] =
        [i \in 1..Len(heap[obj.base]) |->
            IF obj.start < i /\ i <= obj.stop THEN v ELSE heap[obj.base][i]]]

\* sub_arr = arr[2:5]; sub_arr[:] = 99
assign_view(vals, a, b, v) ==
    LET m == np_array(vals)
        sub_arr == getslice(m.obj, a, b)
        h == setall(m.heap, sub_arr, v)
    IN  [arr |-> values(h, m.obj), target |-> values(h, sub_arr)]

\* arr_copy = arr.copy(); arr_copy[0:3] = [7, 7, 7]
assign_copy(vals, a, b, v) ==
    LET m == np_array(vals)
        c == copy(m.heap, m.obj)
        h == setall(c.heap, getslice(c.obj, a, b), v)
    IN  [arr |-> values(h, m.obj), target |-> values(h, c.obj)]

\* arr1d_copy = arr1d[1:4].copy(); arr1d_copy[:] = 7
assign_slice_copy(vals, a, b, v) ==
    LET m == np_array(vals)
        c == copy(m.heap, getslice(m.obj, a, b))
        h == setall(c.heap, c.obj, v)
    IN  [arr |-> values(h, m.obj), target |-> values(h, c.obj)]

\* arrays of up to ViewLen elements, slice bounds from 0 to one past the
\* length, and the value written
AssignOperands ==
    UNION {{[fn |-> "assign", how |-> w, arr |-> x, a |-> a, b |-> b, v |-> v] :
              w \in {"view", "copy", "slice_copy"}, x \in [1..n -> {10, 11}],
              a \in 0..(n + 1), b \in 0..(n + 1), v \in {11, 99}} :
           n \in {ViewLen}}

MergeRows == 2     \* most rows of a drawn table (df_obs has 6)

\* the tables of the merge example; the column Weight_kg, which no join
\* reads, is left out
df_animals ==
    << [Animal |-> "Lion", Species |-> "Panthera leo"],
       [Animal |-> "Zebra", Species |-> "Equus zebra"],
       [Animal |-> "Elephant", Species |-> "Loxodonta"],
       [Animal |-> "Tiger", Species |-> "Panthera tigris"] >>

df_observations ==
    << [Animal |-> "Lion", Year |-> 2020, Observations |-> 5],
       [Animal |-> "Lion", Year |-> 2021, Observations |-> 3],
       [Animal |-> "Zebra", Year |-> 2020, Observations |-> 7],
       [Animal |-> "Tiger", Year |-> 2020, Observations |-> 2],
       [Animal |-> "Giraffe", Year |-> 2021, Observations |-> 1] >>

\* Challenge 1 data
df_info ==
    << [Animal |-> "A001", Species |-> "Lion"],
       [Animal |-> "A002", Species |-> "Lion"],
       [Animal |-> "A003", Species |-> "Zebra"],
       [Animal |-> "A004", Species |-> "Elephant"] >>

df_obs ==
    << [Animal |-> "A001", Year |-> 2020, Observations |-> 5],
       [Animal |-> "A001", Year |-> 2021, Observations |-> 3],
       [Animal |-> "A002", Year |-> 2020, Observations |-> 2],
       [Animal |-> "A003", Year |-> 2020, Observations |-> 4],
       [Animal |-> "A003", Year |-> 2021, Observations |-> 7],
       [Animal |-> "A004", Year |-> 2021, Observations |-> 1] >>

\* a row of a merged table; a column holds <<value>>, or <<>> for the
\* missing value (NaN) of a row that has no partner on that side
Matched(l, r) ==
    [Animal |-> l.Animal, Species |-> <<l.Species>>,
     Year |-> <<r.Year>>, Observations |-> <<r.Observations>>]
LeftAlone(l) ==
    [Animal |-> l.Animal, Species |-> <<l.Species>>,
     Year |-> <<>>, Observations |-> <<>>]
RightAlone(r) ==
    [Animal |-> r.Animal, Species |-> <<>>,
     Year |-> <<r.Year>>, Observations |-> <<r.Observations>>]

\* the rows of the right table whose key is that of a left row
Partners(l, right) == SelectSeq(right, LAMBDA r : r.Animal = l.Animal)

\* a join that pairs a left row with its first partner only
RECURSIVE JoinLeft_first(_, _, _)
JoinLeft_first(left, right, keep) ==
    IF left = <<>> THEN <<>>
    ELSE LET l == Head(left)
             ps == Partners(l, right)
         IN  (IF ps # <<>> THEN <<Matched(l, ps[1])>>
              ELSE IF keep THEN <<LeftAlone(l)>> ELSE <<>>)
             \o JoinLeft_first(Tail(left), right, keep)

\* the left rows in order, each paired with every partner; a left row
\* without partner is kept, alone, when keep holds
RECURSIVE JoinLeft(_, _, _)
JoinLeft(left, right, keep) ==
    IF left = <<>> THEN <<>>
    ELSE LET l == Head(left)
             ps == Partners(l, right)
         IN  (IF ps # <<>> THEN [i \in 1..Len(ps) |-> Matched(l, ps[i])]
              ELSE IF keep THEN <<LeftAlone(l)>> ELSE <<>>)
             \o JoinLeft(Tail(left), right, keep)

\* the right rows no left row has the key of
RECURSIVE JoinRight(_, _)
JoinRight(left, right) ==
    IF right = <<>> THEN <<>>
    ELSE (IF \E i \in 1..Len(left) : left[i].Animal = Head(right).Animal
          THEN <<>> ELSE <<RightAlone(Head(right))>>)
         \o JoinRight(left, Tail(right))

\* pd.merge(left, right, on='Animal', how=how)
merge(left, right, how) ==
    CASE how = "inner" -> JoinLeft(left, right, FALSE)
      [] how = "left" -> JoinLeft(left, right, TRUE)
      [] how = "outer" -> JoinLeft(left, right, TRUE) \o JoinRight(left, right)

\* tables of up to MergeRows rows over two animals, two species, two years
InfoTables ==
    UNION {[1..n -> [Animal : {"A001", "A002"}, Species : {"Lion", "Zebra"}]] :
              n \in 0..MergeRows}
ObsTables ==
    UNION {[1..n -> [Animal : {"A001", "A002"}, Year : {2020, 2021},
                     Observations : {1, 2}]] : n \in 0..MergeRows}

MergeOperands ==
    {[fn |-> "merge", left |-> l, right |-> r] :
        l \in InfoTables, r \in ObsTables}
    \cup {[fn |-> "merge", left |-> df_animals, right |-> df_observations],
          [fn |-> "merge", left |-> df_info, right |-> df_obs]}

\* df_merged.groupby(['Species', 'Year'])['Observations'].sum(): the total
\* of every (Species, Year) pair that has a row, row after row
RECURSIVE groupby_sum(_)
groupby_sum(df) ==
    IF df = <<>> THEN [k \in {} |-> 0]
    ELSE LET g == groupby_sum(Tail(df))
             key == <<Head(df).Species[1], Head(df).Year[1]>>
         IN  [k \in DOMAIN g \cup {key} |->
                 (IF k \in DOMAIN g THEN g[k] ELSE 0)
                 + (IF k = key THEN Head(df).Observations[1] ELSE 0)]

\* species_year_df.pivot(index='Species', columns='Year', values='Observations'):
\* one row per species and one column per year that occur; a combination
\* without entry is missing (NaN)
pivot(g) ==
    [s \in {k[1] : k \in DOMAIN g} |->
        [y \in {k[2] : k \in DOMAIN g} |->
            IF <<s, y>> \in DOMAIN g THEN <<g[<<s, y>>]>> ELSE <<>>]]

\* .fillna(v)
fillna(t, v) ==
    [s \in DOMAIN t |->
        [y \in DOMAIN t[s] |-> IF t[s][y] = <<>> THEN v ELSE t[s][y][1]]]

\* a pivot table that keeps the first entry of a cell
pivot_table_first(df, fill_value) ==
    [s \in {df[i].Species[1] : i \in 1..Len(df)} |->
        [y \in {df[i].Year[1] : i \in 1..Len(df)} |->
            LET es == SelectSeq(df, LAMBDA r : r.Species = <<s>> /\ r.Year = <<y>>)
            IN  IF es = <<>> THEN fill_value ELSE es[1].Observations[1]]]

\* df.pivot_table(index='Species', columns='Year', values='Observations',
\*                aggfunc='sum', fill_value=fill_value)
pivot_table(df, fill_value) ==
    [s \in {df[i].Species[1] : i \in 1..Len(df)} |->
        [y \in {df[i].Year[1] : i \in 1..Len(df)} |->
            LET es == SelectSeq(df, LAMBDA r : r.Species = <<s>> /\ r.Year = <<y>>)
            IN  IF es = <<>> THEN fill_value
                ELSE SumOf([i \in 1..Len(es) |-> es[i].Observations[1]])]]

MaxN == 30         \* largest n of sum_primes_naive(n) (the cell passes 1000000)
MaxSq == 4         \* largest n of sum_squares_loop(n) (the cell passes 10000)

\* int(x**0.5): the integer part of the square root, which the float
\* computation gives exactly at these magnitudes
int_sqrt(x) == CHOOSE r \in 0..x : r * r <= x /\ (r + 1) * (r + 1) > x

\* for i in range(i, stop): if x % i == 0: return False
\* return True
RECURSIVE no_divisor(_, _, _)
no_divisor(x, i, stop) ==
    IF i >= stop THEN TRUE
    ELSE IF x % i = 0 THEN FALSE
    ELSE no_divisor(x, i + 1, stop)

\* trial division that stops one short of the square root
is_prime_short(x) ==
    IF x < 2 THEN FALSE ELSE no_divisor(x, 2, int_sqrt(x))

\* is_prime(x), the helper of sum_primes_naive
is_prime(x) ==
    IF x < 2 THEN FALSE ELSE no_divisor(x, 2, int_sqrt(x) + 1)

\* for num in range(num, n): if is_prime(num): total += num
\* return total
RECURSIVE sum_primes_from(_, _, _)
sum_primes_from(num, n, total) ==
    IF num >= n THEN total
    ELSE sum_primes_from(num + 1, n,
                         IF is_prime(num) THEN total + num ELSE total)

sum_primes_naive(n) == sum_primes_from(2, n, 0)

\* the list comprehension taken over range(1, n + 1)
sum_squares_comp_from_one(n) == SumOf([k \in 1..n |-> k * k])

\* sum([i ** 2 for i in range(n)])
sum_squares_comp(n) == SumOf([k \in 1..n |-> (k - 1) * (k - 1)])

PrimesOperands == {[fn |-> "primes", n |-> n] : n \in (-2)..MaxN}
SquaresOperands == {[fn |-> "squares", n |-> n] : n \in 0..MaxSq}

InitCalls ==
    /\ KernelIdle
    /\ prev = <<>>
    /\ \/ operands \in SumsOperands
       \/ operands \in DivideOperands
       \/ operands \in EqualsOperands
       \/ operands \in VerifyOperands
       \/ operands \in AssignOperands
       \/ operands \in MergeOperands
       \/ operands \in PrimesOperands
       \/ operands \in SquaresOperands
    /\ returned = <<>>
    /\ graph = {}
    /\ executed = {}
    /\ files = <<>>

\* print("Results equal?", left.equals(right))
CallEquals ==
    /\ operands.fn = "equals" /\ returned = <<>>
    /\ returned' = <<equals(operands.left, operands.right)>>
    /\ UNCHANGED <<kernel, prev, operands, dask>>

\* print("Same number of rows in both? ", rows_csv == rows_parquet)
\* print("Same columns in both?        ", cols_csv == cols_parquet)
CallVerify ==
    /\ operands.fn = "verify" /\ returned = <<>>
    /\ returned' = <<verify(operands.left, operands.right)>>
    /\ UNCHANGED <<kernel, prev, operands, dask>>

\* the three ways the cells compute the column of sums
CallSums ==
    /\ operands.fn = "sums" /\ returned = <<>>
    /\ returned' = <<[sum_apply |-> sum_apply(operands.x, operands.y),
                      sum_loop |-> sum_loop(operands.x, operands.y),
                      sum_vectorized |-> sum_vectorized(operands.x, operands.y)]>>
    /\ UNCHANGED <<kernel, prev, operands, dask>>

\* V = np.full(5, np.nan); condition = A != 0
\* V = np.divide(10, A, where=condition)
\* No out= is given: np.divide allocates its result, writes 10 / A[i] where
\* the condition holds and leaves the other positions as allocated; the
\* assignment then rebinds V to that array and the NaN array is dropped.
CallDivide ==
    /\ operands.fn = "divide" /\ returned = <<>>
    /\ \E fresh \in [1..Len(operands.A) -> Garbage] :
          returned' = <<[i \in 1..Len(operands.A) |->
                           IF operands.A[i] # 0
                           THEN FracDiv(Whole(10), Whole(operands.A[i]))
                           ELSE fresh[i]]>>
    /\ UNCHANGED <<kernel, prev, operands, dask>>

\* the three view / copy exercises of the indexing cells
CallAssign ==
    /\ operands.fn = "assign" /\ returned = <<>>
    /\ returned' =
          <<CASE operands.how = "view" ->
                   assign_view(operands.arr, operands.a, operands.b, operands.v)
              [] operands.how = "copy" ->
                   assign_copy(operands.arr, operands.a, operands.b, operands.v)
              [] operands.how = "slice_copy" ->
                   assign_slice_copy(operands.arr, operands.a, operands.b,
                                     operands.v)>>
    /\ UNCHANGED <<kernel, prev, operands, dask>>

\* inner_merged = pd.merge(df_animals, df_observations, on='Animal', how='inner')
\* left_merged = ... how='left');  outer_merged = ... how='outer')
CallMerge ==
    /\ operands.fn = "merge" /\ returned = <<>>
    /\ returned' = <<[inner |-> merge(operands.left, operands.right, "inner"),
                      left |-> merge(operands.left, operands.right, "left"),
                      outer |-> merge(operands.left, operands.right, "outer")]>>
    /\ UNCHANGED <<kernel, prev, operands, dask>>

\* Challenge 1, steps 2 to 4, on the merged table of step 1 (how='inner',
\* the default of pd.merge)
CallSummarise ==
    /\ operands.fn = "merge" /\ Len(returned) = 1
    /\ LET df_merged == returned[1].inner
           species_year_grouped == groupby_sum(df_merged)
       IN  returned' = Append(returned,
              [species_year_grouped |-> species_year_grouped,
               species_year_pivot |-> fillna(pivot(species_year_grouped), 0),
               species_year_pivot2 |-> pivot_table(df_merged, 0)])
    /\ UNCHANGED <<kernel, prev, operands, dask>>

\* print("...", sum_primes_naive(n)), and the helper applied to n itself
CallPrimes ==
    /\ operands.fn = "primes" /\ returned = <<>>
    /\ returned' = <<[total |-> sum_primes_naive(operands.n),
                      is_prime |-> is_prime(operands.n)]>>
    /\ UNCHANGED <<kernel, prev, operands, dask>>

\* sum_squares_loop(n) is entered:  total = 0
EnterLoop ==
    /\ operands.fn = "squares" /\ returned = <<>>
    /\ returned' = <<[at |-> "for", i |-> -1, total |-> 0]>>
    /\ UNCHANGED <<kernel, prev, operands, dask>>

\* for i in range(n): total += i ** 2
Iterate ==
    /\ operands.fn = "squares" /\ returned # <<>>
    /\ returned[1].at = "for" /\ returned[1].i + 1 < operands.n
    /\ LET i == returned[1].i + 1
       IN  returned' = <<[at |-> "for", i |-> i,
                          total |-> returned[1].total + i * i]>>
    /\ UNCHANGED <<kernel, prev, operands, dask>>

\* return total; then sum_squares_comp(n) is called on the same n
ReturnLoop ==
    /\ operands.fn = "squares" /\ returned # <<>>
    /\ returned[1].at = "for" /\ returned[1].i + 1 >= operands.n
    /\ returned' = <<[at |-> "returned", i |-> returned[1].i,
                      total |-> returned[1].total],
                     [loop |-> returned[1].total,
                      comp |-> sum_squares_comp(operands.n)]>>
    /\ UNCHANGED <<kernel, prev, operands, dask>>

NextCalls ==
    \/ CallSums
    \/ CallDivide
    \/ CallEquals
    \/ CallVerify
    \/ CallAssign
    \/ CallMerge
    \/ CallSummarise
    \/ CallPrimes
    \/ EnterLoop
    \/ Iterate
    \/ ReturnLoop

Calls == InitCalls /\ [][NextCalls]_vars

-----------------------------------------------------------------------------
(* The Dask and Parquet notebook, run from its first cell to its last.      *)
(* A Dask collection is a handle: the name of its last stage, its number of *)
(* partitions and its columns.  Its tasks are in the graph; a task has a    *)
(* key <<statement, stage, partition>> and the keys it depends on.          *)

MaxParts == 2      \* range(4): how many CSV parts are written
MaxRows == 2       \* n = 250_000: rows per CSV part
MaxNParts == 3     \* npartitions=10, npartitions=8

DStmt(op, target, source, param) ==
    [op |-> op, target |-> target, source |-> source, param |-> param]

module7 ==
    << DStmt("from_pandas", "ddf", "", "1"),
       DStmt("mean", "result", "ddf", "col2"),
       DStmt("print", "", "result", ""),
       DStmt("compute", "real_result", "result", ""),
       DStmt("from_pandas", "ddf", "", "npartitions"),
       DStmt("filter", "filtered_ddf", "ddf", "value1"),
       DStmt("groupby_mean", "grouped", "filtered_ddf", "value1"),
       DStmt("compute", "result", "grouped", ""),
       DStmt("to_csv", "", "", "data_part"),
       DStmt("read_csv", "ddf", "", "data_part"),
       DStmt("repartition", "ddf", "ddf", "npartitions"),
       DStmt("head", "", "ddf", ""),
       DStmt("mean", "mean_val", "ddf", "value1"),
       DStmt("count", "row_count", "ddf", "id"),
       DStmt("compute", "mean_val_result", "mean_val", ""),
       DStmt("compute", "row_count_result", "row_count", ""),
       DStmt("to_parquet", "", "ddf", "data_parquet"),
       DStmt("read_parquet", "ddf2", "", "data_parquet"),
       DStmt("head", "", "ddf2", ""),
       DStmt("read_csv", "ddf", "", "data_part"),
       DStmt("to_parquet", "", "ddf", "challenge_parquet"),
       DStmt("read_parquet", "ddf_parquet", "", "challenge_parquet"),
       DStmt("count", "lazy_count", "ddf", "id"),
       DStmt("compute", "rows_csv", "lazy_count", ""),
       DStmt("count", "lazy_count", "ddf_parquet", "id"),
       DStmt("compute", "rows_parquet", "lazy_count", ""),
       DStmt("columns", "cols_csv", "ddf", ""),
       DStmt("columns", "cols_parquet", "ddf_parquet", ""),
       DStmt("verify", "verdict", "", "") >>

DCur == module7[pc]

\* the operations that define a new collection
Lazy == {"from_pandas", "read_csv", "read_parquet", "repartition", "filter",
         "mean", "count", "groupby_mean"}

\* the names of the notebook, unbound
Unbound ==
    [ddf |-> <<>>, result |-> <<>>, real_result |-> <<>>,
     filtered_ddf |-> <<>>, grouped |-> <<>>, mean_val |-> <<>>,
     row_count |-> <<>>, mean_val_result |-> <<>>, row_count_result |-> <<>>,
     ddf2 |-> <<>>, ddf_parquet |-> <<>>, lazy_count |-> <<>>,
     rows_csv |-> <<>>, rows_parquet |-> <<>>, cols_csv |-> <<>>,
     cols_parquet |-> <<>>, verdict |-> <<>>]

NoFiles == [data_part |-> <<>>, data_parquet |-> <<>>, challenge_parquet |-> <<>>]

\* chunk_df with ids = np.arange(start_id, end_id + 1), written with its header
CsvPart(i, n) ==
    [columns |-> {"id", "value1", "value2", "group"},
     rows |-> [r \in 1..n |-> (i - 1) * n + r]]

Handle(m, stage, nparts, columns) ==
    [m |-> m, stage |-> stage, nparts |-> nparts, columns |-> columns]

\* the keys of the partitions of a collection
OutKeys(h) == {<<h.m, h.stage, q>> : q \in 1..h.nparts}

Task(key, deps, src, path) ==
    [key |-> key, deps |-> deps, src |-> src, path |-> path]

\* npartitions as given in the statement
NPartitions(st) == IF st.param = "1" THEN 1 ELSE operands.npartitions

\* partition q of k and partition j of m cover a common part of the rows
Overlap(q, k, j, m) == (q - 1) * m < j * k /\ (j - 1) * k < q * m

\* the collection a lazy statement at position m returns
HandleOf(st, m) ==
    LET src == mem[st.source]
    IN  CASE st.op = "from_pandas" ->
               Handle(m, "from_pandas", NPartitions(st),
                      IF st.param = "1" THEN {"col1", "col2"}
                      ELSE {"id", "value1", "group"})
          [] st.op = "read_csv" ->
               Handle(m, "read_csv", Len(files[st.param]),
                      files[st.param][1].columns)
          [] st.op = "read_parquet" ->
               Handle(m, "read_parquet", Len(files[st.param]),
                      files[st.param][1].columns)
          [] st.op = "repartition" ->
               Handle(m, "repartition", NPartitions(st), src.columns)
          [] st.op = "filter" -> Handle(m, "filter", src.nparts, src.columns)
          [] st.op = "mean" -> Handle(m, "mean_agg", 1, {})
          [] st.op = "count" -> Handle(m, "count_agg", 1, {})
          [] st.op = "groupby_mean" -> Handle(m, "groupby_agg", 1, {})

\* the tasks a statement at position m adds to the graph
TasksOf(st, m) ==
    LET src == mem[st.source]
        PerPartition(stage, from) ==
            {Task(<<m, stage, q>>, {<<from[1], from[2], q>>}, src, "") :
                q \in 1..src.nparts}
        Aggregate(stage, chunk) ==
            {Task(<<m, stage, 1>>, {<<m, chunk, q>> : q \in 1..src.nparts},
                  src, "")}
    IN  CASE st.op = "from_pandas" ->
               {Task(<<m, "from_pandas", q>>, {}, <<>>, "") :
                   q \in 1..NPartitions(st)}
          [] st.op \in {"read_csv", "read_parquet"} ->
               {Task(<<m, st.op, q>>, {}, <<>>, st.param) :
                   q \in 1..Len(files[st.param])}
          [] st.op = "repartition" ->
               {Task(<<m, "repartition", j>>,
                     {<<src.m, src.stage, q>> :
                         q \in {x \in 1..src.nparts :
                                  Overlap(x, src.nparts, j, NPartitions(st))}},
                     src, "") : j \in 1..NPartitions(st)}
          [] st.op = "filter" ->
               PerPartition("filter", <<src.m, src.stage>>)
          [] st.op \in {"mean", "count", "groupby_mean"} ->
               LET chunk == IF st.op = "mean" THEN "mean_chunk"
                            ELSE IF st.op = "count" THEN "count_chunk"
                            ELSE "groupby_chunk"
                   agg == IF st.op = "mean" THEN "mean_agg"
                          ELSE IF st.op = "count" THEN "count_agg"
                          ELSE "groupby_agg"
               IN  PerPartition("getitem", <<src.m, src.stage>>)
                   \cup PerPartition(chunk, <<m, "getitem">>)
                   \cup Aggregate(agg, chunk)
          [] st.op = "head" ->
               {Task(<<m, "head", 1>>, {<<src.m, src.stage, 1>>}, src, "")}
          [] st.op = "to_parquet" ->
               PerPartition("to_parquet", <<src.m, src.stage>>)
          [] OTHER -> {}

\* the keys a set of keys depends on in graph g, themselves included
RECURSIVE Closure(_, _)
Closure(g, keys) ==
    LET more == keys \cup UNION {t.deps : t \in {u \in g : u.key \in keys}}
    IN  IF more = keys THEN keys ELSE Closure(g, more)

\* the rows (by id) that partition j of m takes from rows, the content of
\* partition x of k: repartitioning keeps every row, in order
Slice(rows, x, k, j, m) ==
    LET n == Len(rows)
        I == {r \in 1..n : /\ ((x - 1) * n + (r - 1)) * m >= (j - 1) * k * n
                           /\ ((x - 1) * n + (r - 1)) * m < j * k * n}
        lo == IF I = {} THEN 0 ELSE CHOOSE r \in I : \A o \in I : r <= o
    IN  [i \in 1..Cardinality(I) |-> rows[lo + i - 1]]

RECURSIVE Concat(_, _)
Concat(f, k) == IF k = 0 THEN <<>> ELSE Concat(f, k - 1) \o f[k]

\* the rows a dataframe task yields when it is executed
RECURSIVE Rows(_, _)
Rows(g, key) ==
    LET t == CHOOSE u \in g : u.key = key
        stage == key[2]
        q == key[3]
    IN  CASE stage \in {"read_csv", "read_parquet"} -> files[t.path][q].rows
          [] stage = "from_pandas" ->
               Slice([r \in 1..operands.rows |-> r], 1, 1, q,
                     Cardinality({u \in g : u.key[1] = key[1]}))
          [] stage = "repartition" ->
               Concat([x \in 1..t.src.nparts |->
                          Slice(Rows(g, <<t.src.m, t.src.stage, x>>),
                                x, t.src.nparts, q,
                                Cardinality({u \in g : /\ u.key[1] = key[1]
                                                       /\ u.key[2] = stage}))],
                      t.src.nparts)
          [] stage = "getitem" ->
               Rows(g, CHOOSE d \in t.deps : TRUE)

\* the count of a column: the counts of its partitions, added up
RECURSIVE CountRows(_, _, _)
CountRows(g, m, k) ==
    IF k = 0 THEN 0
    ELSE CountRows(g, m, k - 1) + Len(Rows(g, <<m, "getitem", k>>))

\* what .compute() returns: the count of a column is evaluated, the other
\* results are not followed by the model
Result(g, h) ==
    IF h.stage = "count_agg"
    THEN LET t == CHOOSE u \in g : u.key = <<h.m, "count_agg", 1>>
         IN  CountRows(g, h.m, t.src.nparts)
    ELSE "value"

\* every operation runs the tasks it defines at once
Executes_eagerly(st, m, g) ==
    Closure(g, {t.key : t \in TasksOf(st, m)})

\* the tasks the scheduler runs during a statement: .compute() runs all the
\* collection depends on; head() and to_parquet() call compute themselves
Executes(st, m, g) ==
    CASE st.op = "compute" -> Closure(g, OutKeys(mem[st.source]))
      [] st.op = "head" -> Closure(g, {<<m, "head", 1>>})
      [] st.op = "to_parquet" ->
           Closure(g, {<<m, "to_parquet", q>> : q \in 1..mem[st.source].nparts})
      [] OTHER -> {}

\* only the first partition is written
WriteParquet_first_only(g, h) ==
    <<[columns |-> h.columns, rows |-> Rows(g, <<h.m, h.stage, 1>>)]>>

\* ddf.to_parquet(path, write_index=False): one file per partition, holding
\* the columns of the dataframe and no index
WriteParquet(g, h) ==
    [q \in 1..h.nparts |->
        [columns |-> h.columns, rows |-> Rows(g, <<h.m, h.stage, q>>)]]

InitModule7 ==
    /\ cell = "module7"
    /\ pc = 1
    /\ mem = Unbound
    /\ clock = 0
    /\ tpc = "idle"
    /\ t0 = 0
    /\ run = 0
    /\ loop = 0
    /\ times = <<>>
    /\ measured = <<>>
    /\ results = <<>>
    /\ wall = <<>>
    /\ log = <<>>
    /\ prev = <<>>
    /\ operands \in {[fn |-> "module7", parts |-> k, rows |-> n,
                      npartitions |-> m] :
                        k \in 1..MaxParts, n \in 1..MaxRows, m \in 1..MaxNParts}
    /\ returned = <<>>
    /\ graph = {}
    /\ executed = {}
    /\ files = NoFiles

AtStmt == cell = "module7" /\ pc <= Len(module7)

\* the state a statement of this notebook leaves alone
timing == <<cell, clock, tpc, t0, run, loop, times, measured, results, wall,
            log, prev, pure>>

\* dd.from_pandas, dd.read_csv, dd.read_parquet, .repartition, ddf[...],
\* .mean(), .count(), .groupby(...)[...].mean()
Define ==
    /\ AtStmt /\ DCur.op \in Lazy
    /\ graph' = graph \cup TasksOf(DCur, pc)
    /\ executed' = executed \cup Executes(DCur, pc, graph')
    /\ mem' = [mem EXCEPT ![DCur.target] = HandleOf(DCur, pc)]
    /\ pc' = pc + 1
    /\ UNCHANGED <<timing, files>>

\* x = collection.compute()
Compute ==
    /\ AtStmt /\ DCur.op = "compute"
    /\ executed' = executed \cup Executes(DCur, pc, graph)
    /\ mem' = [mem EXCEPT ![DCur.target] = Result(graph, mem[DCur.source])]
    /\ pc' = pc + 1
    /\ UNCHANGED <<timing, graph, files>>

\* print(ddf.head())
Preview ==
    /\ AtStmt /\ DCur.op = "head"
    /\ graph' = graph \cup TasksOf(DCur, pc)
    /\ executed' = executed \cup Executes(DCur, pc, graph')
    /\ pc' = pc + 1
    /\ UNCHANGED <<timing, mem, files>>

\* ddf.to_parquet(path, write_index=False)
ToParquet ==
    /\ AtStmt /\ DCur.op = "to_parquet"
    /\ graph' = graph \cup TasksOf(DCur, pc)
    /\ executed' = executed \cup Executes(DCur, pc, graph')
    /\ files' = [files EXCEPT
                   ![DCur.param] = WriteParquet(graph, mem[DCur.source])]
    /\ pc' = pc + 1
    /\ UNCHANGED <<timing, mem>>

\* for i in range(4): ...; chunk_df.to_csv(filename, index=False)
ToCsv ==
    /\ AtStmt /\ DCur.op = "to_csv"
    /\ files' = [files EXCEPT
                   ![DCur.param] = [i \in 1..operands.parts |->
                                       CsvPart(i, operands.rows)]]
    /\ pc' = pc + 1
    /\ UNCHANGED <<timing, mem, graph, executed>>

\* cols = set(ddf.columns)
ColumnNames ==
    /\ AtStmt /\ DCur.op = "columns"
    /\ mem' = [mem EXCEPT ![DCur.target] = mem[DCur.source].columns]
    /\ executed' = executed \cup Executes(DCur, pc, graph)
    /\ pc' = pc + 1
    /\ UNCHANGED <<timing, graph, files>>

\* print("Same number of rows in both? ", rows_csv == rows_parquet)
\* print("Same columns in both?        ", cols_csv == cols_parquet)
Verify ==
    /\ AtStmt /\ DCur.op = "verify"
    /\ mem' = [mem EXCEPT
                 !.verdict = [rows |-> mem.rows_csv = mem.rows_parquet,
                              cols |-> mem.cols_csv = mem.cols_parquet]]
    /\ pc' = pc + 1
    /\ UNCHANGED <<timing, graph, executed, files>>

\* print("Dask result (lazy):", result)
ShowLazy ==
    /\ AtStmt /\ DCur.op = "print"
    /\ executed' = executed \cup Executes(DCur, pc, graph)
    /\ pc' = pc + 1
    /\ UNCHANGED <<timing, mem, graph, files>>

NextModule7 ==
    \/ Define
    \/ Compute
    \/ Preview
    \/ ToParquet
    \/ ToCsv
    \/ ColumnNames
    \/ Verify
    \/ ShowLazy

Module7 == InitModule7 /\ [][NextModule7]_vars

-----------------------------------------------------------------------------
(* Derived views of the history.                                            *)

Timed == {"timeit", "autotimeit", "repeat"}
Invocations == Timed \cup {"call", "wall"}

\* positions of the history that are invocations made by statement m
CallsOf(m) == {i \in 1..Len(log) : log[i].m = m /\ log[i].ev \in Invocations}

\* the completed measurement a computed best value was derived from
MeasuredAt(m) == CHOOSE ms \in {measured[k] : k \in 1..Len(measured)} : ms.m = m

\* invocations a statement makes in all
Required(st) == IF st.op \in Timed THEN st.number * st.repeat
                ELSE IF st.op \in Invocations THEN 1 ELSE 0

\* the cell builds its input with a statement of its own
HasGen == cell \in Cells /\ \E k \in 1..Len(Program(cell)) : Program(cell)[k].op = "gen"

\* the candidates the cell invokes
Candidates(c) ==
    {Program(c)[k].cand : k \in {h \in 1..Len(Program(c)) :
                                    Program(c)[h].op \in Invocations}}

-----------------------------------------------------------------------------
(* Claims.                                                                  *)

C2_RunsOfLoops ==
    \A k \in 1..Len(measured) :
        LET ms == measured[k]
            I == CallsOf(ms.m)
            first == CHOOSE i \in I : \A j \in I : i <= j
        IN  ms.op \in {"timeit", "repeat"} =>
            /\ Cardinality(I) = ms.repeat * ms.number
            /\ I = first..(first + ms.repeat * ms.number - 1)
            /\ \A i \in I :
                  /\ log[i].cand = ms.cand
                  /\ log[i].run = ((i - first) \div ms.number) + 1
            /\ Len(ms.times) = ms.repeat

\* a cell in which two different candidates have both been measured
C2_Witness ==
    /\ Len(measured) = 2
    /\ measured[1].op = "timeit" /\ measured[2].op \in {"timeit", "repeat"}
    /\ measured[1].cand # measured[2].cand
    /\ \E r \in 1..Len(measured[2].times) : measured[2].times[r] > 0

C4_StatedOrder ==
    /\ HasGen =>
          \A i \in 1..Len(log) :
              log[i].ev \in Invocations => \E j \in 1..(i - 1) : log[j].ev = "gen"
    /\ \A i, j \in 1..Len(log) :
          i < j => ~(log[i].ev = "check" /\ log[j].ev \in Timed \cup {"wall"})
    /\ cell \in Cells /\ pc = Len(Program(cell)) + 1 =>
          \E j \in 1..Len(log) : log[j].ev = "check"

\* C4 (amended): in every cell the input is generated before any candidate
\* is invoked and the candidates are invoked and timed one statement after
\* the other in listed order; an equivalence check is made only once every
\* candidate has produced its output, which is after the timings in the
\* apply-vs-vectorized cell but before the timings in the loop-vs-NumPy sum
\* cell, and the other cells report their timings without any check.
C4_CellOrder ==
    /\ HasGen /\ log # <<>> =>
          /\ log[1].ev = "gen"
          /\ \A i \in 2..Len(log) : log[i].ev # "gen"
    /\ \A i \in 1..(Len(log) - 1) : log[i].m <= log[i + 1].m
    /\ \A i \in 1..Len(log) :
          log[i].ev = "check" =>
              /\ cell \in {"apply", "loopsum"}
              /\ \A c \in Candidates(cell) :
                    \E j \in 1..(i - 1) :
                        log[j].ev \in Invocations /\ log[j].cand = c
              /\ cell = "apply" =>
                    \A j \in 1..Len(log) : log[j].ev = "wall" => j < i
              /\ cell = "loopsum" =>
                    \A j \in 1..Len(log) : log[j].ev \in Timed => i < j

\* the loop-vs-NumPy sum cell has run to its end: its outputs were compared
\* before its two candidates were timed
C4_Witness ==
    /\ cell = "loopsum" /\ pc = Len(loopsum_cell) + 1
    /\ \E i, j \in 1..Len(log) :
          i < j /\ log[i].ev = "check" /\ log[j].ev = "autotimeit"
    /\ Len(measured) = 2

\* C8: candidates execute one at a time: at every moment every statement
\* before the current one has made all of its invocations (R*N for a
\* measurement), no later statement has made any, the invocations of the
\* measurement in progress are the runs and loops completed so far, and the
\* history holds the invocations one statement after the other.
C8_OneAtATime ==
    cell \in Cells =>
        /\ \A m \in 1..Len(Program(cell)) :
              Cardinality(CallsOf(m)) =
                  IF m < pc THEN Required(Program(cell)[m])
                  ELSE IF m > pc \/ tpc = "idle" THEN 0
                  ELSE run * Cur.number + (IF tpc = "loop" THEN loop ELSE 0)
        /\ \A i \in 1..(Len(log) - 1) : log[i].m <= log[i + 1].m
        /\ tpc # "idle" => Cur.op \in Timed /\ run <= Cur.repeat /\ loop <= Cur.number

\* the second candidate of the masked-divide cell is being measured
C8_Witness ==
    /\ cell = "divide" /\ pc = 3 /\ tpc = "loop" /\ loop >= 1 /\ run >= 1
    /\ Len(measured) = 1

\* C9: every invocation of every candidate of a cell finds the input as it
\* was generated, whatever earlier invocations did to it.
C9_InputAsGenerated ==
    \A j \in 1..Len(log) :
        log[j].ev = "gen" =>
            \A i \in (j + 1)..Len(log) :
                log[i].ev \in Invocations => log[i].seen = log[j].seen

C13_NaNPolicy ==
    /\ returned # <<>>
    /\ operands.fn = "equals"
    /\ Len(operands.left) = Len(operands.right)
    => LET l == operands.left
           r == operands.right
           I == 1..Len(l)
       IN  /\ returned[1] = FALSE =>
                 \E i \in I : ~(IsNaN(l[i]) /\ IsNaN(r[i])) /\ l[i] # r[i]
           /\ (\E i \in I : IsNaN(l[i]) # IsNaN(r[i])) => returned[1] = FALSE

\* two columns with NaN at the same position and equal values elsewhere are
\* reported equal
C13_Witness ==
    /\ operands.fn = "equals"
    /\ returned = <<TRUE>>
    /\ operands.left = <<NaN, One>>
    /\ operands.right = <<NaN, One>>

C16_RowwiseIsVectorized ==
    /\ operands.fn = "sums"
    /\ returned # <<>>
    => LET out == returned[1]
           n == Len(operands.x)
       IN  /\ Len(out.sum_apply) = n
           /\ Len(out.sum_loop) = n
           /\ Len(out.sum_vectorized) = n
           /\ \A i \in 1..n :
                 /\ out.sum_apply[i] = out.sum_vectorized[i]
                 /\ out.sum_loop[i] = out.sum_vectorized[i]
                 /\ out.sum_vectorized[i] = operands.x[i] + operands.y[i]
           /\ (operands.x = <<1, 2, 3, 4>> /\ operands.y = <<10, 20, 30, 40>>)
                 => /\ out.sum_apply = <<11, 22, 33, 44>>
                    /\ out.sum_loop = <<11, 22, 33, 44>>
                    /\ out.sum_vectorized = <<11, 22, 33, 44>>

\* the three columns of sums of [1, 2, 3, 4] and [10, 20, 30, 40] exist
C16_Witness ==
    /\ operands.fn = "sums"
    /\ operands.x = <<1, 2, 3, 4>> /\ operands.y = <<10, 20, 30, 40>>
    /\ returned # <<>>
    /\ returned[1].sum_loop[4] = 44

\* C17: dividing 10 element-wise by [2, 0, 5, 0, 10] under the mask
\* divisor != 0, with V pre-set to NaN, leaves exactly the two positions
\* whose divisor is 0 holding NaN and the other three holding 5, 2 and 1.
C17_SentinelKept ==
    /\ operands.fn = "divide"
    /\ operands.A = <<2, 0, 5, 0, 10>>
    /\ returned # <<>>
    => returned[1] = <<Whole(5), NaN, Whole(2), NaN, Whole(1)>>

\* C18: the timeit.repeat measurement of the "store results in variables"
\* cell is the same measurement as the %timeit -r 40 -n 1000 line above it:
\* the same statement is timed, in as many runs (40 in the cell, the bound
\* runs here) of as many loops each (1000 in the cell, the bound repeats
\* here), and the value computed is the smallest run total divided by the
\* loops of a run.
C18_SameMeasurement ==
    /\ cell = "store"
    /\ Len(measured) = 2
    /\ Len(results) = 1
    => LET magic == measured[1]
           stored == measured[2]
       IN  /\ magic.op = "timeit" /\ stored.op = "repeat"
           /\ stored.cand = magic.cand
           /\ stored.repeat = magic.repeat /\ stored.repeat = runs
           /\ stored.number = magic.number /\ stored.number = repeats
           /\ Len(stored.times) = Len(magic.times)
           /\ results[1].best =
                 FracMul(FracDiv(Whole(MinOf(stored.times)), Whole(stored.number)),
                         Whole(results[1].scale))

After(j) == IF j < Len(log) THEN log[j + 1].seen ELSE Input(mem)

\* C21: masked_divide(A, B) works on a copy of A, so the array A it was
\* passed holds the same values after the call as before it.
C21_InputUnchanged ==
    \A j \in 1..Len(log) :
        log[j].cand = "masked_divide" /\ log[j].ev \in Invocations =>
            After(j)[1] = log[j].seen[1]

\* C22: assigning through a slice (sub = arr[a:b]; sub[:] = v) writes v to
\* exactly the positions a..b-1 of the original array and leaves the others
\* as they were, whereas assigning into arr.copy() or into arr[a:b].copy()
\* leaves every position of the original array as it was.
C22_ViewWritesThrough ==
    (operands # <<>> /\ returned # <<>>) =>
        (operands.fn = "assign" =>
            /\ Len(returned[1].arr) = Len(operands.arr)
            /\ \A i \in 1..Len(operands.arr) :
                  returned[1].arr[i] =
                      IF /\ operands.how = "view"
                         /\ operands.a <= i - 1 /\ i - 1 < operands.b
                      THEN operands.v
                      ELSE operands.arr[i]
            /\ \A i \in 1..Len(returned[1].target) :
                  operands.how # "copy" => returned[1].target[i] = operands.v)

\* a value was written through a view of the two middle elements, and the
\* original array shows it
C22_Witness ==
    /\ operands # <<>> /\ returned # <<>>
    /\ operands.fn = "assign" /\ operands.how = "view"
    /\ operands.a = 1 /\ operands.b = ViewLen
    /\ operands.v = 99
    /\ returned[1].arr = <<operands.arr[1]>> \o [i \in 1..(ViewLen - 1) |-> 99]

\* the keys of a table and the number of its rows that have key k
KeysOf(t) == {t[i].Animal : i \in 1..Len(t)}
RowsOf(t, k) == Cardinality({i \in 1..Len(t) : t[i].Animal = k})

\* C23: for two tables merged on a key column, the inner join holds exactly
\* the keys that occur in both tables; the left join holds every left row,
\* with missing values where the key is absent on the right, and no key
\* that is only on the right; the outer join holds every key of either
\* table; and a key that occurs m times on the left and k times on the
\* right has m * k rows.  For the example data the keys are Lion, Zebra,
\* Tiger (inner), with Elephant (left), with Giraffe as well (outer).
C23_JoinKeysAndRows ==
    (operands # <<>> /\ returned # <<>>) =>
        (operands.fn = "merge" =>
            LET l == operands.left
                r == operands.right
                j == returned[1]
                Missing(row) == row.Year = <<>> /\ row.Observations = <<>>
            IN  /\ KeysOf(j.inner) = KeysOf(l) \cap KeysOf(r)
                /\ KeysOf(j.left) = KeysOf(l)
                /\ KeysOf(j.outer) = KeysOf(l) \cup KeysOf(r)
                /\ \A k \in KeysOf(l) \cup KeysOf(r) :
                      /\ RowsOf(j.inner, k) = RowsOf(l, k) * RowsOf(r, k)
                      /\ RowsOf(j.left, k) =
                            IF RowsOf(r, k) = 0 THEN RowsOf(l, k)
                            ELSE RowsOf(l, k) * RowsOf(r, k)
                      /\ RowsOf(j.outer, k) =
                            IF RowsOf(r, k) = 0 THEN RowsOf(l, k)
                            ELSE IF RowsOf(l, k) = 0 THEN RowsOf(r, k)
                            ELSE RowsOf(l, k) * RowsOf(r, k)
                /\ \A i \in 1..Len(l) :
                      \E n \in 1..Len(j.left) :
                          /\ j.left[n].Animal = l[i].Animal
                          /\ j.left[n].Species = <<l[i].Species>>
                /\ \A n \in 1..Len(j.left) :
                      Missing(j.left[n]) <=> j.left[n].Animal \notin KeysOf(r)
                /\ \A n \in 1..Len(j.inner) :
                      ~Missing(j.inner[n]) /\ j.inner[n].Species # <<>>
                /\ \A n \in 1..Len(j.outer) :
                      /\ Missing(j.outer[n]) <=> j.outer[n].Animal \notin KeysOf(r)
                      /\ j.outer[n].Species = <<>> <=>
                            j.outer[n].Animal \notin KeysOf(l)
                /\ (l = df_animals /\ r = df_observations) =>
                      /\ KeysOf(j.inner) = {"Lion", "Zebra", "Tiger"}
                      /\ KeysOf(j.left) = {"Lion", "Zebra", "Elephant", "Tiger"}
                      /\ KeysOf(j.outer) =
                            {"Lion", "Zebra", "Elephant", "Tiger", "Giraffe"})

\* the example tables have been merged: Lion, once on the left and twice
\* on the right, has two rows; Elephant is kept by the left join, alone
C23_Witness ==
    /\ operands # <<>> /\ returned # <<>>
    /\ operands.fn = "merge"
    /\ operands.left = df_animals /\ operands.right = df_observations
    /\ Len(returned[1].inner) = 4
    /\ Len(returned[1].left) = 5
    /\ Len(returned[1].outer) = 6
    /\ RowsOf(returned[1].inner, "Lion") = 2
    /\ \E n \in 1..5 : /\ returned[1].left[n].Animal = "Elephant"
                       /\ returned[1].left[n].Observations = <<>>

\* the observations of species s in year y: every entry of the observation
\* table, once for each row of the info table that gives its animal as s
Total(info, obs, s, y) ==
    SumOf([i \in 1..Len(info) |->
             IF info[i].Species # s THEN 0
             ELSE SumOf([n \in 1..Len(obs) |->
                           IF obs[n].Animal = info[i].Animal /\ obs[n].Year = y
                           THEN obs[n].Observations ELSE 0])])

IsPrimeNumber(p) == p >= 2 /\ \A d \in 2..(p - 1) : p % d # 0

\* C25: for every integer n, sum_primes_naive(n) returns the sum of all
\* prime numbers p with 2 <= p < n (0 when n <= 2), and is_prime(x) returns
\* True exactly when x >= 2 and x has no divisor d with 2 <= d and
\* d * d <= x.
C25_SumOfPrimesBelow ==
    (operands # <<>> /\ returned # <<>>) =>
        (operands.fn = "primes" =>
            LET n == operands.n
            IN  /\ returned[1].total =
                      SumOf([p \in 1..(IF n > 1 THEN n - 1 ELSE 0) |->
                                IF IsPrimeNumber(p) THEN p ELSE 0])
                /\ n <= 2 => returned[1].total = 0
                /\ returned[1].is_prime <=>
                      (n >= 2 /\ \A d \in 2..n : d * d <= n => n % d # 0)
                /\ returned[1].is_prime <=> IsPrimeNumber(n))

\* the nine primes below 25 have been added up; 25 itself, the square of
\* a prime, is found not to be prime
C25_Witness ==
    /\ operands # <<>> /\ returned # <<>>
    /\ operands.fn = "primes" /\ operands.n = 25
    /\ returned[1].total = 100
    /\ ~returned[1].is_prime

\* the sum of the squares of 0..i
SquaresUpTo(i) == (i * (i + 1) * (2 * i + 1)) \div 6

\* C26: for every integer n >= 0, sum_squares_loop(n) and
\* sum_squares_comp(n) return the same value, the sum of i * i for i in
\* 0..n-1, and in the loop the running total after processing index i is
\* the sum of the squares of 0..i.
C26_LoopIsComprehension ==
    (operands # <<>> /\ returned # <<>>) =>
        (operands.fn = "squares" =>
            /\ returned[1].i < operands.n
            /\ returned[1].i >= 0 => returned[1].total = SquaresUpTo(returned[1].i)
            /\ returned[1].i = -1 => returned[1].total = 0
            /\ Len(returned) = 2 =>
                  /\ returned[2].loop = returned[2].comp
                  /\ returned[2].loop =
                        (IF operands.n = 0 THEN 0 ELSE SquaresUpTo(operands.n - 1))
                  /\ returned[1].i = operands.n - 1)

\* both functions have returned the sum of the squares of 0..3
C26_Witness ==
    /\ operands # <<>> /\ returned # <<>>
    /\ operands.fn = "squares" /\ operands.n = 4
    /\ Len(returned) = 2
    /\ returned[2].loop = 14 /\ returned[2].comp = 14

\* how many invocations of masked_divide the history holds up to entry j
CallNo(j) ==
    Cardinality({h \in 1..j : /\ log[h].cand = "masked_divide"
                              /\ log[h].ev \in Invocations})

\* q divided by r, k times over
RECURSIVE DivideTimes(_, _, _)
DivideTimes(q, r, k) ==
    IF k = 0 THEN q ELSE FloatDiv(DivideTimes(q, r, k - 1), r)

\* after the k-th of the consecutive invocations of masked_divide(A, B),
\* the array holds the generated A[i] where B[i] = 0 and the generated A[i]
\* divided k times by B[i] elsewhere
KFold(j) ==
    LET A0 == log[1].seen[1]
        B == log[j].seen[2]
    IN  /\ log[1].ev = "gen"
        /\ B = log[1].seen[2]
        /\ \A i \in 1..Len(A0) :
              After(j)[1][i] = IF B[i] = Zero THEN A0[i]
                               ELSE DivideTimes(A0[i], B[i], CallNo(j))

\* the latest entry of the history is an invocation of masked_divide, so
\* that the arrays are as that invocation left them
JustDivided ==
    /\ log # <<>>
    /\ log[Len(log)].cand = "masked_divide"
    /\ log[Len(log)].ev \in Invocations

====
